---- MODULE Spec2Model ----
(***************************************************************************)
(* Model of sync_services.py: Datadog Events -> Reference Table -> Service *)
(* Catalog.  One run of main() is a state machine over the HTTP requests   *)
(* it issues; the event source, the reference table and the catalog are    *)
(* the environment, whose answers are drawn with \E at each request.       *)
(*                                                                         *)
(* Python strings are sequences of code points, so that sorted(), strip(), *)
(* startswith() and split() are computed as Python computes them.          *)
(***************************************************************************)
EXTENDS Integers, Sequences, FiniteSets, TLC

VARIABLES
    \* ---- command line / environment of the run
    dry_run,          \* args.dry_run
    max_pages,        \* args.max_pages (None or a positive integer)
    table_id,         \* REF_TABLE_ID override, then the id found by lookup
    \* ---- external systems
    store,            \* reference table: set of rows [id, team]
    endless,          \* the event source hands out a next cursor on every page
    \* ---- control
    pc,               \* where main() is
    \* ---- list_services_from_events
    services, page, cursor,
    \* ---- get_reference_table_rows_by_id
    mapping, row_list, start,
    \* ---- assign_dummy_teams / create_reference_table_rows
    dummy_rows, created, insert_failures,
    \* ---- upsert loop of main
    pos, updated, skipped, failures, missing_team,
    \* ---- what the run printed at lines 480-488 (NoSummary until then)
    summary,
    \* ---- observation of the traffic (not program state)
    last_req,         \* the last HTTP request issued and its answer
    nreq,             \* number of requests issued, per kind
    lookups,          \* the chunks sent to the rows endpoint, in order
    upserts,          \* the (service, team) documents sent to the catalog
    creates,          \* the services a row creation was sent for, in order
    \* ---- second run over the same discovered set
    run, first,
    \* ---- the argument of a call of assign_dummy_teams on its own
    given

vars == <<dry_run, max_pages, table_id, store, endless, pc, services, page, cursor,
          mapping, row_list, start, dummy_rows, created, insert_failures,
          pos, updated, skipped, failures, missing_team, summary,
          last_req, nreq, lookups, upserts, creates, run, first, given>>

-----------------------------------------------------------------------------
(* Python strings *)

Ord == (" " :> 32) @@ ("1" :> 49) @@ ("2" :> 50) @@ (":" :> 58) @@
       ("a" :> 97) @@ ("b" :> 98) @@ ("c" :> 99) @@ ("e" :> 101) @@
       ("i" :> 105) @@ ("m" :> 109) @@ ("n" :> 110) @@ ("r" :> 114) @@
       ("s" :> 115) @@ ("t" :> 116) @@ ("v" :> 118) @@ ("x" :> 120)

\* the Python string literal made of the given characters
Str(chars) == [i \in DOMAIN chars |-> Ord[chars[i]]]

Empty == << >>
\* Python's None: a value that is no string
None == << -1 >>

\* truth value of a string or None (`if s`, `x or y`)
Truthy(s) == s # None /\ s # Empty
Or(x, y) == IF Truthy(x) THEN x ELSE y

\* str.strip(): whitespace removed at both ends
IsSpace(c) == c \in {9, 10, 11, 12, 13, 28, 29, 30, 31, 32}

RECURSIVE lstrip(_)
lstrip(s) == IF s # Empty /\ IsSpace(Head(s)) THEN lstrip(Tail(s)) ELSE s

RECURSIVE rstrip(_)
rstrip(s) ==
    IF s # Empty /\ IsSpace(s[Len(s)]) THEN rstrip(SubSeq(s, 1, Len(s) - 1))
    ELSE s

strip(s) == rstrip(lstrip(s))

\* s < t in Python's string order (lexicographic by code point)
RECURSIVE StrLess(_, _)
StrLess(s, t) ==
    IF t = Empty THEN FALSE
    ELSE IF s = Empty THEN TRUE
    ELSE IF Head(s) # Head(t) THEN Head(s) < Head(t)
    ELSE StrLess(Tail(s), Tail(t))

\* sorted(set(...)) of a set of strings
RECURSIVE sorted(_)
sorted(S) ==
    IF S = {} THEN << >>
    ELSE LET m == CHOOSE x \in S : \A y \in S \ {x} : StrLess(x, y)
         IN  <<m>> \o sorted(S \ {m})

\* the elements of a sequence
Range(q) == {q[i] : i \in DOMAIN q}

\* a dict as a function; dict.get(key) and dict.update(other)
EmptyDict == [k \in {} |-> None]
Get(d, k) == IF k \in DOMAIN d THEN d[k] ELSE None
Update(d, other) ==
    [k \in DOMAIN d \cup DOMAIN other |->
        IF k \in DOMAIN other THEN other[k] ELSE d[k]]

-----------------------------------------------------------------------------
(* The identifiers, teams and event records the environment can produce *)

SvcA == Str(<<"a">>)
SvcB == Str(<<"b">>)
SvcC == Str(<<"c">>)
SvcPadA == Str(<<" ", "a">>)       \* "a" with a leading blank
TeamX == Str(<<"x">>)
Blank == Str(<<" ">>)
Cursor1 == Str(<<"c", "1">>)

\* the next cursor the event source hands out with its page p: "c1", "c2", ...
CursorOf(p) == Str(<<"c">>) \o << 48 + p >>

\* teams = ["team 1", "team 2"]
teams == << Str(<<"t", "e", "a", "m", " ", "1">>),
            Str(<<"t", "e", "a", "m", " ", "2">>) >>

ServicePrefix == Str(<<"s", "e", "r", "v", "i", "c", "e", ":">>)
TagEnv == Str(<<"e", "n", "v", ":", "x">>)

\* An event record: attributes.attributes.service (None when absent) and
\* attributes.tags.
Records ==
    { [service |-> SvcA,    tags |-> << ServicePrefix \o SvcB >>],
      [service |-> None,    tags |-> << ServicePrefix \o SvcB, TagEnv,
                                         ServicePrefix \o SvcC >>],
      [service |-> Empty,   tags |-> << ServicePrefix >>],
      [service |-> SvcPadA, tags |-> << >>],
      [service |-> None,    tags |-> << TagEnv >>] }

\* bounds of the environment
MaxFetch == 3        \* the event source stops handing out cursors after this many pages
MaxTablePages == 2   \* pages of the table listing
MaxPagesArg == 2     \* largest --max-pages tried

Min(a, b) == IF a < b THEN a ELSE b

\* `page` is only ever compared with max_pages (line 109): beyond the largest
\* max_pages and the length of a finite stream its value makes no difference.
\* From PageCap on the model keeps it going round PageCap, PageCap + 1.
PageCap == MaxFetch + MaxPagesArg + 1

\* The reference table contents a run can start from: at most one row per
\* identifier (the row id is the table's primary key).
StoreRows ==
    { [id |-> SvcA, team |-> teams[1]], [id |-> SvcA, team |-> Empty],
      [id |-> SvcA, team |-> Blank],
      [id |-> SvcPadA, team |-> TeamX] }

Ids(rows) == {r.id : r \in rows}
UniqueIds(rows) == \A r1, r2 \in rows : r1.id = r2.id => r1 = r2
Stores == {st \in SUBSET StoreRows : UniqueIds(st)}

NoSummary == << >>
NoRequest == [kind |-> "none", status |-> 0, arg |-> None, body |-> "",
              after |-> None]
NoRequests == [events |-> 0, tables |-> 0, rows |-> 0, create |-> 0, upsert |-> 0]
NoFirst == << >>

\* one more request of the kind (the events counter stops at PageCap)
Count(kind) ==
    [nreq EXCEPT ![kind] = IF kind = "events" THEN Min(@ + 1, PageCap) ELSE @ + 1]

\* the locals of one run of the resolve / fill / upsert sequence, before it starts
RunLocals ==
    /\ mapping = EmptyDict /\ row_list = << >> /\ start = 0
    /\ dummy_rows = EmptyDict /\ created = 0 /\ insert_failures = << >>
    /\ pos = 0 /\ updated = 0 /\ skipped = 0 /\ failures = 0
    /\ missing_team = << >> /\ summary = NoSummary
    /\ last_req = NoRequest /\ nreq = NoRequests
    /\ lookups = << >> /\ upserts = << >> /\ creates = << >>

Init ==
    /\ dry_run \in BOOLEAN
    /\ max_pages \in {<< >>} \cup {<<n>> : n \in 0..MaxPagesArg}
    /\ table_id \in {None, Str(<<"t">>)}   \* REF_TABLE_ID unset or set
    /\ store \in Stores
    /\ endless = FALSE
    /\ pc = "events"
    /\ services = {} /\ page = 0 /\ cursor = None
    /\ RunLocals
    /\ run = 1 /\ first = NoFirst /\ given = << >>

-----------------------------------------------------------------------------
(* list_services_from_events *)

startswith(s, prefix) ==
    Len(s) >= Len(prefix) /\ SubSeq(s, 1, Len(prefix)) = prefix

\* s.split(sep, 1)[1] for an s that contains sep: what follows its first occurrence
split1(s, sep) ==
    LET at == CHOOSE i \in 1..Len(s) :
                  /\ SubSeq(s, i, i + Len(sep) - 1) = sep
                  /\ \A j \in 1..(i - 1) : SubSeq(s, j, j + Len(sep) - 1) # sep
    IN  SubSeq(s, at + Len(sep), Len(s))

\* (mutant) the tags are scanned although the structured field was taken
extract_tags_too(event) ==
    (IF Truthy(event.service) THEN {event.service} ELSE {})
    \cup {split1(event.tags[i], ServicePrefix) :
            i \in {j \in DOMAIN event.tags : startswith(event.tags[j], ServicePrefix)}}

\* lines 132-145: what one event adds to the set
extract(event) ==
    IF Truthy(event.service) THEN {event.service}
    ELSE {split1(event.tags[i], ServicePrefix) :
            i \in {j \in DOMAIN event.tags : startswith(event.tags[j], ServicePrefix)}}

\* lines 131-145 over the page's data
extract_all(data) == UNION {extract(data[i]) : i \in DOMAIN data}

\* The shapes of the paging metadata of a response body.
MetaShapes == {"meta_absent", "meta_null", "page_absent", "page_null",
               "after_absent", "after"}

\* line 147 raises AttributeError when meta.page is null
cursor_raises(resp) == resp.meta = "page_null"
\* line 147: (data.get("meta", {}) or {}).get("page", {}).get("after")
next_cursor(resp) == IF resp.meta = "after" THEN resp.after ELSE None

\* The answers of the event source to the request for page p.
EventResponses(p) ==
    { [status |-> s, data |-> << >>, meta |-> "meta_absent", after |-> None] :
        s \in {401, 404, 500} }
    \cup
    { [status |-> 200, data |-> d, meta |-> m, after |-> a] :
        d \in {<< >>} \cup {<<r>> : r \in Records},
        m \in MetaShapes,
        a \in {None, Empty, CursorOf(p)} }

\* A finite stream has at most MaxFetch pages; an endless one can hand out a
\* next cursor with any page.
EventResponseOk(resp, p) ==
    /\ (resp.meta = "after") <=> (resp.after # None)
    /\ resp.after = CursorOf(p) => endless \/ p < MaxFetch

\* (mutant) the gaps are filled before anything is looked up
after_events_fill_first(svcs) ==
    IF svcs = {} THEN "done" ELSE "fill"

\* lines 410-421 after the fetch returned: no services, or on to the table
after_events(svcs) ==
    IF svcs = {} THEN "done"
    ELSE IF Truthy(table_id) THEN "rows_begin"
    ELSE "table"

events_return(svcs) ==
    /\ services' = svcs
    /\ pc' = after_events(svcs)
    /\ page' = 0 /\ cursor' = None /\ max_pages' = << >>

\* line 108: page += 1
next_page == IF page <= PageCap THEN page + 1 ELSE PageCap

\* (mutant) the limit is compared with the pages already fetched
max_pages_reached_late == max_pages # << >> /\ page > max_pages[1]

\* (mutant) the limit is never looked at
max_pages_reached_never == FALSE

\* lines 108-112: the page limit is reached, no request is made
max_pages_reached == max_pages # << >> /\ next_page > max_pages[1]

EventsStop ==
    /\ pc = "events"
    /\ max_pages_reached
    /\ events_return(services)
    /\ UNCHANGED <<endless, dry_run, table_id, store, mapping, row_list, start,
                   dummy_rows, created, insert_failures, pos, updated, skipped,
                   failures, missing_team, summary, last_req, nreq, lookups,
                   upserts, creates, run, first, given>>

\* lines 114-117: the cursor the request carries, None when it carries none
sent_cursor == IF Truthy(cursor) THEN cursor ELSE None

\* lines 114-149: one request of the loop and the handling of its response
EventsFetch ==
    /\ pc = "events"
    /\ ~max_pages_reached
    /\ \E resp \in EventResponses(next_page) :
        /\ EventResponseOk(resp, next_page)
        /\ last_req' = [kind |-> "events", status |-> resp.status,
                        arg |-> sent_cursor,
                        body |-> resp.meta, after |-> resp.after]
        /\ nreq' = Count("events")
        /\ IF resp.status = 401 \/ resp.status >= 400
           THEN /\ pc' = "exit"
                /\ page' = next_page
                /\ UNCHANGED <<services, cursor, max_pages>>
           ELSE LET svcs == services \cup extract_all(resp.data) IN
                IF cursor_raises(resp)
                THEN /\ pc' = "exit"
                     /\ services' = svcs
                     /\ page' = next_page
                     /\ UNCHANGED <<cursor, max_pages>>
                ELSE IF ~Truthy(next_cursor(resp))
                THEN events_return(svcs)
                ELSE /\ services' = svcs
                     /\ cursor' = next_cursor(resp)
                     /\ page' = next_page
                     /\ UNCHANGED <<pc, max_pages>>
    /\ UNCHANGED <<endless, dry_run, table_id, store, mapping, row_list, start,
                   dummy_rows, created, insert_failures, pos, updated, skipped,
                   failures, missing_team, summary, lookups,
                   upserts, creates, run, first, given>>

-----------------------------------------------------------------------------
(* get_reference_table_id *)

TableId == Str(<<"t">>)

\* One page of the table listing: its status, whether an item matches the
\* configured name or id, and whether it links to a next page.
TableResponses ==
    { [status |-> s, match |-> m, next |-> n] :
        s \in {200, 401, 404, 500}, m \in BOOLEAN, n \in BOOLEAN }

\* lines 198-229
TableLookup ==
    /\ pc = "table"
    /\ \E resp \in TableResponses :
        /\ resp.next => nreq.tables + 1 < MaxTablePages
        /\ resp.status # 200 => ~resp.match /\ ~resp.next
        /\ last_req' = [kind |-> "tables", status |-> resp.status, arg |-> None,
                        body |-> "", after |-> None]
        /\ nreq' = Count("tables")
        /\ IF resp.status = 401 THEN pc' = "exit" /\ UNCHANGED table_id
           ELSE IF resp.status = 404 THEN pc' = "exit" /\ UNCHANGED table_id
           ELSE IF resp.status >= 400 THEN pc' = "exit" /\ UNCHANGED table_id
           ELSE IF resp.match THEN pc' = "rows_begin" /\ table_id' = TableId
           ELSE IF resp.next THEN UNCHANGED <<pc, table_id>>
           ELSE pc' = "exit" /\ UNCHANGED table_id
    /\ UNCHANGED <<endless, dry_run, max_pages, store, services, page, cursor, mapping,
                   row_list, start, dummy_rows, created, insert_failures, pos,
                   updated, skipped, failures, missing_team, summary, lookups,
                   upserts, creates, run, first, given>>

-----------------------------------------------------------------------------
(* get_reference_table_rows_by_id *)

chunk_size == 100

service_col == "service"
team_col == "team"

\* all the orders a Python set can be iterated in
Orders(S) == {q \in [1..Cardinality(S) -> S] : Range(q) = S}

\* line 245: the non-empty identifiers
non_empty(S) == {r \in S : Truthy(r)}

\* (mutant) the slice stops one short
chunk_at_short(list, from) ==
    SubSeq(list, from + 1, Min(from + chunk_size - 1, Len(list)))

\* line 251: row_list[start : start + chunk_size]
chunk_at(list, from) == SubSeq(list, from + 1, Min(from + chunk_size, Len(list)))

\* The item the table returns for a row: the value bag under attributes.values.
Item(row) ==
    [id |-> row.id,
     attributes |-> [values |-> (service_col :> row.id) @@ (team_col :> row.team)]]

\* The rows of the table for the requested ids, in the order requested.
RECURSIVE RowsFor(_, _)
RowsFor(rows, ids) ==
    IF ids = << >> THEN << >>
    ELSE LET hit == {r \in rows : r.id = Head(ids)} IN
         (IF hit = {} THEN << >> ELSE << Item(CHOOSE r \in hit : TRUE) >>)
            \o RowsFor(rows, Tail(ids))

\* lines 75-77: the first non-empty of values / value / columns, else attrs
HasBag(attrs, key) == key \in DOMAIN attrs /\ DOMAIN attrs[key] # {}
_extract_row_values(item) ==
    LET attrs == item.attributes IN
    IF HasBag(attrs, "values") THEN attrs["values"]
    ELSE IF HasBag(attrs, "value") THEN attrs["value"]
    ELSE IF HasBag(attrs, "columns") THEN attrs["columns"]
    ELSE attrs

\* lines 273-278 over the items of one response, in order
RECURSIVE record_items(_, _)
record_items(m, data) ==
    IF data = << >> THEN m
    ELSE LET values == _extract_row_values(Head(data))
             service == strip(Or(Get(values, service_col), Empty))
             team == strip(Or(Get(values, team_col), Empty))
         IN  record_items(IF Truthy(service)
                          THEN Update(m, (service :> team)) ELSE m,
                          Tail(data))

\* The bodies a 404 can carry: unparsable, without meta.not_found, with a
\* null meta.not_found, or listing the identifiers not found.
NotFoundBodies == {"invalid_json", "absent", "null", "listed"}

\* (mutant) the key is tested for presence, not its value for None
has_not_found_key(body) == body \in {"listed", "null"}

\* lines 262-266: payload.get("meta", {}).get("not_found") is not None
has_not_found_marker(body) == body = "listed"

\* The answers of the table to a lookup of the chunk.  A success returns the
\* rows it holds for the identifiers asked; the not-found marker is given
\* when it holds a row for none of them.
RowResponses(rows, chunk) ==
    { [status |-> s, body |-> "absent", data |-> << >>] : s \in {401, 500} }
    \cup
    { [status |-> 404, body |-> b, data |-> << >>] :
        b \in IF Ids(rows) \cap Range(chunk) = {}
              THEN NotFoundBodies ELSE NotFoundBodies \ {"listed"} }
    \cup
    { [status |-> 200, body |-> "absent", data |-> RowsFor(rows, chunk)] }

\* (mutant) only a 401 aborts
rows_fatal_401_only(resp) == resp.status = 401

\* lines 258-270: the response aborts the run
rows_fatal(resp) ==
    \/ resp.status = 401
    \/ resp.status = 404 /\ ~has_not_found_marker(resp.body)
    \/ resp.status # 404 /\ resp.status >= 400

\* lines 260-278: the mapping after the response of one chunk
rows_mapping(m, resp) ==
    IF resp.status = 404 THEN m ELSE record_items(m, resp.data)

\* lines 244-247
RowsBegin ==
    /\ pc = "rows_begin"
    /\ \E order \in Orders(non_empty(services)) :
        /\ row_list' = order
        /\ pc' = IF order = << >> THEN "fill" ELSE "rows"
    /\ mapping' = EmptyDict
    /\ start' = 0
    /\ UNCHANGED <<endless, dry_run, max_pages, table_id, store, services, page, cursor,
                   dummy_rows, created, insert_failures, pos, updated, skipped,
                   failures, missing_team, summary, last_req, nreq, lookups,
                   upserts, creates, run, first, given>>

\* lines 250-278: one iteration of the loop over the chunks
RowsLookup ==
    /\ pc = "rows"
    /\ LET chunk == chunk_at(row_list, start) IN
       \E resp \in RowResponses(store, chunk) :
        /\ last_req' = [kind |-> "rows", status |-> resp.status, arg |-> None,
                        body |-> resp.body, after |-> None]
        /\ nreq' = Count("rows")
        /\ lookups' = Append(lookups, chunk)
        /\ IF rows_fatal(resp)
           THEN /\ pc' = "exit"
                /\ UNCHANGED <<mapping, start>>
           ELSE /\ mapping' = rows_mapping(mapping, resp)
                /\ start' = start + chunk_size
                /\ pc' = IF start + chunk_size >= Len(row_list)
                         THEN "fill" ELSE "rows"
    /\ UNCHANGED <<endless, dry_run, max_pages, table_id, store, services, page, cursor,
                   row_list, dummy_rows, created, insert_failures, pos, updated,
                   skipped, failures, missing_team, summary, upserts, creates,
                   run, first, given>>

-----------------------------------------------------------------------------
(* assign_dummy_teams, create_reference_table_rows *)

\* position of x in the sequence q (1-based)
IndexOf(q, x) == CHOOSE i \in DOMAIN q : q[i] = x

\* (mutant) the rotation is indexed from 1
assign_dummy_teams_from_1(list) ==
    LET order == sorted({s \in Range(list) : Truthy(s)}) IN
    [service \in Range(order) |->
        teams[(IndexOf(order, service) % Len(teams)) + 1]]

\* lines 67-72; `list` is the iterable passed in, as a sequence
assign_dummy_teams(list) ==
    LET order == sorted({s \in Range(list) : Truthy(s)}) IN
    [service \in Range(order) |->
        teams[((IndexOf(order, service) - 1) % Len(teams)) + 1]]

\* line 433: the services without an entry in the mapping
missing_services(svcs, m) == {s \in svcs : s \notin DOMAIN m}

\* rows.items(): a dict iterates in insertion order, which
\* assign_dummy_teams makes the sorted order
items(rows) == sorted(DOMAIN rows)

\* lines 457-460
upsert_init ==
    /\ updated' = 0 /\ skipped' = 0 /\ failures' = 0 /\ missing_team' = << >>
    /\ pos' = 0

\* (mutant) the dry-run flag is not consulted
creates_rows_always(rows) == rows # EmptyDict

\* lines 436-441: rows are created when there are any and the run is live
creates_rows(rows) == rows # EmptyDict /\ ~dry_run

\* (mutant) the dry run forgets the placeholders
dry_filled_forgotten(m, rows) == m

\* line 440: mapping.update(dummy_rows) of the dry run
dry_filled(m, rows) == Update(m, rows)

\* lines 432-440: the gap filling, up to the first row creation
Fill ==
    /\ pc = "fill"
    /\ \E list \in Orders(missing_services(services, mapping)) :
        LET rows == assign_dummy_teams(list) IN
        /\ dummy_rows' = rows
        /\ IF creates_rows(rows)
           THEN pc' = "create" /\ UNCHANGED mapping
           ELSE pc' = "upsert" /\ mapping' = dry_filled(mapping, rows)
    /\ upsert_init
    /\ created' = 0 /\ insert_failures' = << >>
    /\ row_list' = << >> /\ start' = 0 /\ lookups' = << >>
    /\ UNCHANGED <<endless, dry_run, max_pages, table_id, store, services, page, cursor,
                   summary, last_req, nreq, upserts, creates, run, first, given>>

\* The answers of the table to the creation of a row: created, conflict
\* when it already holds a row with that id, or an error.
CreateStatuses(rows, service) ==
    IF service \in Ids(rows) THEN {409, 500} ELSE {200, 201, 500}

\* (mutant) a conflict is reported like any other failure
create_counts_conflict_fails(status, service) ==
    IF status \in {200, 201} THEN <<created + 1, insert_failures>>
    ELSE <<created, Append(insert_failures, [service |-> service, status |-> status])>>

\* lines 309-314: what the response does to (created, failures)
create_counts(status, service) ==
    IF status \in {200, 201} THEN <<created + 1, insert_failures>>
    ELSE IF status = 409 THEN <<created, insert_failures>>
    ELSE <<created, Append(insert_failures, [service |-> service, status |-> status])>>

\* (mutant) the live run forgets the placeholders
live_filled_forgotten(m, rows) == m

\* line 455: mapping.update(dummy_rows) of the live run
live_filled(m, rows) == Update(m, rows)

\* lines 293-314: one iteration of the loop over the rows to create;
\* after the last one, lines 449-460
CreateRow ==
    /\ pc = "create"
    /\ LET service == items(dummy_rows)[pos + 1]
           team == dummy_rows[service]
       IN  \E status \in CreateStatuses(store, service) :
            /\ last_req' = [kind |-> "create", status |-> status, arg |-> service,
                            body |-> "", after |-> None]
            /\ nreq' = Count("create")
            /\ creates' = Append(creates, service)
            /\ store' = IF status \in {200, 201}
                        THEN store \cup {[id |-> service, team |-> team]}
                        ELSE store
            /\ created' = create_counts(status, service)[1]
            /\ insert_failures' = create_counts(status, service)[2]
    /\ IF pos + 1 = Len(items(dummy_rows))
       THEN /\ mapping' = live_filled(mapping, dummy_rows)
            /\ pc' = "upsert"
            /\ pos' = 0
       ELSE /\ pos' = pos + 1
            /\ UNCHANGED <<mapping, pc>>
    /\ UNCHANGED <<endless, dry_run, max_pages, table_id, services, page, cursor,
                   row_list, start, dummy_rows, updated, skipped, failures,
                   missing_team, summary, lookups, upserts, run, first, given>>

-----------------------------------------------------------------------------
(* the upsert loop of main, upsert_service_definition, the summary *)

\* line 463
team_of(m, service) == strip(Or(Get(m, service), Empty))

\* (mutant) a service counts as having a team as soon as it has an entry
has_team_if_mapped(m, service) == service \in DOMAIN m

\* line 464: `if not team` fails
has_team(m, service) == Truthy(team_of(m, service))

\* (mutant) the loop runs over the services from the last to the first
current_reversed == sorted(services)[Len(sorted(services)) - pos]

\* line 462: the service the loop is at
current == sorted(services)[pos + 1]

\* the loop goes on, or lines 480-488 follow
upsert_next ==
    /\ pos' = pos + 1
    /\ pc' = IF pos + 1 = Len(sorted(services)) THEN "summary" ELSE "upsert"

\* lines 464-467
UpsertSkip ==
    /\ pc = "upsert"
    /\ ~has_team(mapping, current)
    /\ skipped' = skipped + 1
    /\ missing_team' = Append(missing_team, current)
    /\ upsert_next
    /\ UNCHANGED <<endless, dry_run, max_pages, table_id, store, services, page, cursor,
                   mapping, row_list, start, dummy_rows, created,
                   insert_failures, updated, failures, summary, last_req, nreq,
                   lookups, upserts, creates, run, first, given>>

\* lines 469-471
UpsertDry ==
    /\ pc = "upsert"
    /\ has_team(mapping, current)
    /\ dry_run
    /\ updated' = updated + 1
    /\ upsert_next
    /\ UNCHANGED <<endless, dry_run, max_pages, table_id, store, services, page, cursor,
                   mapping, row_list, start, dummy_rows, created,
                   insert_failures, skipped, failures, missing_team, summary,
                   last_req, nreq, lookups, upserts, creates, run, first, given>>

\* The answers of the catalog to a definition.
UpsertStatuses == {200, 201, 500}

\* (mutant) only 200 is taken for a success
upsert_ok_200_only(status) == status = 200

\* lines 338-340
upsert_ok(status) == status \in {200, 201}

\* lines 473-478 with upsert_service_definition (lines 329-340)
UpsertSend ==
    /\ pc = "upsert"
    /\ has_team(mapping, current)
    /\ ~dry_run
    /\ \E status \in UpsertStatuses :
        /\ last_req' = [kind |-> "upsert", status |-> status, arg |-> current,
                        body |-> "", after |-> None]
        /\ IF upsert_ok(status)
           THEN updated' = updated + 1 /\ UNCHANGED failures
           ELSE failures' = failures + 1 /\ UNCHANGED updated
    /\ nreq' = Count("upsert")
    /\ upserts' = Append(upserts, [service |-> current,
                                   team |-> team_of(mapping, current)])
    /\ upsert_next
    /\ UNCHANGED <<endless, dry_run, max_pages, table_id, store, services, page, cursor,
                   mapping, row_list, start, dummy_rows, created,
                   insert_failures, skipped, missing_team, summary, lookups,
                   creates, run, first, given>>

\* lines 480-488
Summarize ==
    /\ pc = "summary"
    /\ summary' = << [found |-> Cardinality(services), updated |-> updated,
                      skipped |-> skipped, failures |-> failures,
                      missing_team |-> missing_team] >>
    /\ pc' = "done"
    /\ UNCHANGED <<endless, dry_run, max_pages, table_id, store, services, page, cursor,
                   mapping, row_list, start, dummy_rows, created,
                   insert_failures, pos, updated, skipped, failures,
                   missing_team, last_req, nreq, lookups, upserts, creates,
                   run, first, given>>

-----------------------------------------------------------------------------
(* A second run of the resolve / fill / upsert sequence over the same
   discovered services, against the table as the first run left it. *)

\* what the lookups returned: the mapping without the placeholders
resolved(m, rows) == [k \in DOMAIN m \ DOMAIN rows |-> m[k]]

Rerun ==
    /\ pc = "done"
    /\ summary # NoSummary
    /\ run = 1
    /\ run' = 2
    /\ first' = << [summary |-> summary[1], dry_run |-> dry_run,
                    insert_failures |-> insert_failures,
                    resolved |-> resolved(mapping, dummy_rows),
                    store |-> store] >>
    /\ dry_run' \in BOOLEAN
    /\ pc' = "rows_begin"
    /\ mapping' = EmptyDict /\ row_list' = << >> /\ start' = 0
    /\ dummy_rows' = EmptyDict /\ created' = 0 /\ insert_failures' = << >>
    /\ pos' = 0 /\ updated' = 0 /\ skipped' = 0 /\ failures' = 0
    /\ missing_team' = << >> /\ summary' = NoSummary
    /\ last_req' = NoRequest /\ nreq' = NoRequests
    /\ lookups' = << >> /\ upserts' = << >> /\ creates' = << >>
    /\ UNCHANGED <<endless, max_pages, table_id, store, services, page, cursor, given>>

-----------------------------------------------------------------------------

Next ==
    \/ EventsStop
    \/ EventsFetch
    \/ TableLookup
    \/ RowsBegin
    \/ RowsLookup
    \/ Fill
    \/ CreateRow
    \/ UpsertSkip
    \/ UpsertDry
    \/ UpsertSend
    \/ Summarize

Spec == Init /\ [][Next]_vars

-----------------------------------------------------------------------------
(* Two runs in a row over one discovered set: the run starts where main()
   has the services (line 423), and is repeated once. *)

\* discovered sets the event fetch can return
TwiceServices ==
    { {SvcA, SvcB, SvcC}, {SvcA, SvcPadA}, {SvcPadA}, {SvcA, SvcB, SvcC, Empty} }

InitTwice ==
    /\ dry_run \in BOOLEAN
    /\ max_pages = << >>
    /\ table_id = TableId
    /\ store \in Stores
    /\ endless = FALSE
    /\ pc = "rows_begin"
    /\ services \in TwiceServices /\ page = 0 /\ cursor = None
    /\ RunLocals
    /\ run = 1 /\ first = NoFirst /\ given = << >>

NextTwice ==
    \/ RowsBegin
    \/ RowsLookup
    \/ Fill
    \/ CreateRow
    \/ UpsertSkip
    \/ UpsertDry
    \/ UpsertSend
    \/ Summarize
    \/ Rerun

SpecTwice == InitTwice /\ [][NextTwice]_vars

-----------------------------------------------------------------------------
(* The chunked lookup alone, over identifier lists longer than a chunk: the
   run is at line 250 with row_list built from the discovered services. *)

MaxRows == 250

\* distinct non-empty identifiers
BigId(i) == Str(<<"s">>) \o << 1000 + i >>

\* A few of the orders the set of n identifiers can be iterated in; in the
\* last the 101st identifier is the first one with a leading blank.
RowLists(n) ==
    { [i \in 1..n |-> BigId(i)],
      [i \in 1..n |-> BigId(n + 1 - i)],
      [i \in 1..n |-> IF i = chunk_size + 1 THEN Blank \o BigId(1) ELSE BigId(i)] }

ChunkStores ==
    { {},
      {[id |-> BigId(i), team |-> TeamX] : i \in {j \in 1..MaxRows : j % 7 = 0}},
      {[id |-> BigId(i), team |-> teams[1]] : i \in (chunk_size + 1)..(chunk_size + 9)},
      {[id |-> BigId(1), team |-> teams[1]], [id |-> Blank \o BigId(1), team |-> TeamX]} }

InitChunks ==
    /\ dry_run = FALSE
    /\ max_pages = << >>
    /\ table_id = TableId
    /\ store \in ChunkStores
    /\ endless = FALSE
    /\ pc = "rows"
    /\ \E n \in 1..MaxRows : \E list \in RowLists(n) :
        /\ services = Range(list)
        /\ row_list = list
    /\ page = 0 /\ cursor = None
    /\ mapping = EmptyDict /\ start = 0
    /\ dummy_rows = EmptyDict /\ created = 0 /\ insert_failures = << >>
    /\ pos = 0 /\ updated = 0 /\ skipped = 0 /\ failures = 0
    /\ missing_team = << >> /\ summary = NoSummary
    /\ last_req = NoRequest /\ nreq = NoRequests
    /\ lookups = << >> /\ upserts = << >> /\ creates = << >>
    /\ run = 1 /\ first = NoFirst /\ given = << >>

NextChunks == RowsLookup

SpecChunks == InitChunks /\ [][NextChunks]_vars

-----------------------------------------------------------------------------
(* assign_dummy_teams on its own, over lists with repetitions and in any
   order. *)

MaxGiven == 4

AssignIds == {SvcA, SvcB, SvcC, SvcPadA, Empty}

InitAssign ==
    /\ dry_run = FALSE
    /\ max_pages = << >>
    /\ table_id = TableId
    /\ store = {}
    /\ endless = FALSE
    /\ pc = "assign"
    /\ services = {} /\ page = 0 /\ cursor = None
    /\ RunLocals
    /\ run = 1 /\ first = NoFirst
    /\ given \in UNION {[1..n -> AssignIds] : n \in 0..MaxGiven}

\* lines 67-72: the call and its result
Assign ==
    /\ pc = "assign"
    /\ dummy_rows' = assign_dummy_teams(given)
    /\ pc' = "assigned"
    /\ UNCHANGED <<endless, dry_run, max_pages, table_id, store, services, page, cursor,
                   mapping, row_list, start, created, insert_failures, pos,
                   updated, skipped, failures, missing_team, summary, last_req,
                   nreq, lookups, upserts, creates, run, first, given>>

NextAssign == Assign

SpecAssign == InitAssign /\ [][NextAssign]_vars

-----------------------------------------------------------------------------
(* The event fetch alone, against finite and endless event sources, with and
   without --max-pages. *)

InitFetch ==
    /\ dry_run = FALSE
    /\ max_pages \in {<< >>} \cup {<<n>> : n \in 0..MaxPagesArg}
    /\ table_id = TableId
    /\ store = {}
    /\ endless \in BOOLEAN
    /\ pc = "events"
    /\ services = {} /\ page = 0 /\ cursor = None
    /\ RunLocals
    /\ run = 1 /\ first = NoFirst /\ given = << >>

NextFetch ==
    \/ EventsStop
    \/ EventsFetch

SpecFetch == InitFetch /\ [][NextFetch]_vars

\* Every request is answered or times out (timeout=(10, 30), line 122), so
\* the loop always takes its next step.
SpecFetchFair == SpecFetch /\ WF_vars(NextFetch)

-----------------------------------------------------------------------------
(* The extraction of lines 131-145 alone, over pages of records that mix a
   structured service field with tags. *)

MaxTags == 2         \* tags per record
MaxData == 2         \* records per page

\* a tag that holds "service:" but does not start with it
TagInner == TagEnv \o ServicePrefix \o SvcA

ExtractTags == << ServicePrefix \o SvcB, TagInner, ServicePrefix \o SvcC, ServicePrefix >>

\* the tags of ExtractTags at the positions S, in their order
TagsAt(S) ==
    [i \in 1..Cardinality(S) |->
        ExtractTags[CHOOSE x \in S : Cardinality({y \in S : y < x}) = i - 1]]

ExtractRecords ==
    { [service |-> s, tags |-> TagsAt(S)] :
        s \in {None, Empty, SvcA},
        S \in {T \in SUBSET DOMAIN ExtractTags : Cardinality(T) <= MaxTags} }

InitExtract ==
    /\ dry_run = FALSE
    /\ max_pages = << >>
    /\ table_id = TableId
    /\ store = {}
    /\ endless = FALSE
    /\ pc = "extract"
    /\ services = {} /\ page = 0 /\ cursor = None
    /\ RunLocals
    /\ run = 1 /\ first = NoFirst
    /\ given \in UNION {[1..n -> ExtractRecords] : n \in 0..MaxData}

\* lines 131-145: the records of one page are added to the set
Extract ==
    /\ pc = "extract"
    /\ services' = services \cup extract_all(given)
    /\ pc' = "extracted"
    /\ UNCHANGED <<endless, dry_run, max_pages, table_id, store, page, cursor,
                   mapping, row_list, start, dummy_rows, created,
                   insert_failures, pos, updated, skipped, failures,
                   missing_team, summary, last_req, nreq, lookups, upserts,
                   creates, run, first, given>>

NextExtract == Extract

SpecExtract == InitExtract /\ [][NextExtract]_vars

-----------------------------------------------------------------------------
(* Properties *)

Printed == summary # NoSummary
Sum == summary[1]

\* the services whose team is empty once the gaps are filled
NoTeam == {s \in services : ~Truthy(Get(mapping, s))}

\* the services a definition was sent for
Upserted == {upserts[i].service : i \in DOMAIN upserts}

\* the number of lookups that n identifiers need
Ceil(n, k) == (n + k - 1) \div k

\* C1: once the summary is printed, updated + skipped + failed = found, the
\* skipped services are exactly those whose team is empty after the gap
\* filling, each discovered service is either skipped or (in a live run) sent
\* to the catalog exactly once, and no skipped service is sent.
C1_Partition ==
    Printed =>
        /\ Sum.found = Cardinality(services)
        /\ Sum.updated + Sum.skipped + Sum.failures = Sum.found
        /\ Range(Sum.missing_team) = NoTeam
        /\ Sum.skipped = Cardinality(NoTeam)
        /\ Len(Sum.missing_team) = Sum.skipped
        /\ Upserted \cap NoTeam = {}
        /\ ~dry_run =>
            /\ Upserted = services \ NoTeam
            /\ Len(upserts) = Cardinality(Upserted)
            /\ Sum.updated + Sum.failures = Len(upserts)

C1_Witness ==
    /\ Printed
    /\ Sum.updated >= 1 /\ Sum.skipped >= 1 /\ Sum.failures >= 1

\* C2: a dry run issues no row creation and no catalog upsert; when it
\* prints its summary it has fetched events and looked up every chunk of
\* identifiers.
C2_DryRunNoWrites ==
    dry_run =>
        /\ nreq.create = 0 /\ nreq.upsert = 0
        /\ creates = << >> /\ upserts = << >>
        /\ last_req.kind \notin {"create", "upsert"}
        /\ Printed =>
            /\ nreq.events >= 1
            /\ nreq.rows = Ceil(Cardinality(non_empty(services)), chunk_size)

C2_Witness ==
    /\ dry_run /\ Printed
    /\ dummy_rows # EmptyDict
    /\ Sum.updated >= 2
    /\ nreq.rows >= 1

First == first[1]
DryThenLive == run = 2 /\ Printed /\ First.dry_run /\ ~dry_run
SameResolved == First.resolved = resolved(mapping, dummy_rows)

\* C3 as stated: the counts of a dry run equal those of a live run over the
\* same services and the same table.
C3_SameCounts ==
    DryThenLive =>
        /\ First.summary.found = Sum.found
        /\ First.summary.updated = Sum.updated
        /\ First.summary.skipped = Sum.skipped
        /\ First.summary.failures = Sum.failures

\* C3 (amended): a dry run and a live run over the same services and the
\* same table find the same number of services; the dry run reports no
\* failure and counts as updated every service that is not skipped, the live
\* run splits these between updated and failed; when the lookups of the two
\* runs return the same mapping, they skip the same services.
C3_DryProjectsLive ==
    DryThenLive =>
        /\ First.summary.found = Sum.found
        /\ First.summary.failures = 0
        /\ First.summary.updated + First.summary.skipped = Sum.found
        /\ Sum.updated + Sum.failures + Sum.skipped = Sum.found
        /\ SameResolved =>
            /\ First.summary.skipped = Sum.skipped
            /\ First.summary.missing_team = Sum.missing_team
            /\ First.summary.updated = Sum.updated + Sum.failures

C3_Witness ==
    /\ DryThenLive /\ SameResolved
    /\ Sum.failures >= 1 /\ Sum.updated >= 1 /\ Sum.skipped >= 1
    /\ creates # << >>

\* an upsert request is issued in this step
UpsertIssued == nreq'.upsert = nreq.upsert + 1

C4_Inv ==
    /\ ~dry_run /\ Printed =>
        /\ Upserted = services \ NoTeam
        /\ Len(upserts) = Cardinality(Upserted)
        /\ Sum.updated + Sum.failures = Len(upserts)
    /\ ~dry_run /\ pc = "upsert" => pos < Len(sorted(services))

C4_Step ==
    UpsertIssued =>
        LET service == sorted(services)[pos + 1] IN
        /\ last_req'.kind = "upsert" /\ last_req'.arg = service
        /\ service \notin Upserted
        /\ upserts' = Append(upserts, [service |-> service,
                                       team |-> Get(mapping, service)])
        /\ IF last_req'.status \in {200, 201}
           THEN updated' = updated + 1 /\ failures' = failures
           ELSE failures' = failures + 1 /\ updated' = updated
        /\ pos' = pos + 1
        /\ pc' = IF pos' < Len(sorted(services)) THEN "upsert" ELSE "summary"

\* C4: in a live run every service with a non-empty team after the gap
\* filling gets exactly one upsert attempt; an answer other than 200/201 adds
\* one to failed and nothing to updated, the loop moves on to the next
\* service without retrying, and the run goes on to its summary.
C4_UpsertIsolated == [](C4_Inv) /\ [][C4_Step]_vars

\* an upsert failed and a later service was upserted all the same
C4_Witness ==
    /\ ~dry_run /\ Printed
    /\ Sum.failures >= 1 /\ Len(upserts) >= 2
    /\ last_req.kind = "upsert" /\ last_req.status \in {200, 201}
    /\ Sum.updated = 1

\* a row creation is issued in this step
CreateIssued == nreq'.create = nreq.create + 1

C5_Step ==
    CreateIssued /\ last_req'.status = 409 =>
        /\ created' = created
        /\ insert_failures' = insert_failures
        /\ store' = store
        /\ pc' \in {"create", "upsert"}

\* C5: a row creation answered 409 is neither counted as created nor
\* recorded as a failure, the run goes on, and the table never holds two
\* rows with the same id.
C5_ConflictIsNoOp == [](UniqueIds(store)) /\ [][C5_Step]_vars

C5_Witness ==
    /\ last_req.kind = "create" /\ last_req.status = 409
    /\ insert_failures = << >>
    /\ pc = "upsert"

LiveTwice == run = 2 /\ ~First.dry_run /\ ~dry_run
SameModeTwice == run = 2 /\ First.dry_run = dry_run

\* no two discovered identifiers are equal up to surrounding whitespace
NoPadTwins == \A s, t \in services : strip(s) = strip(t) => s = t

ReadIssued ==
    /\ nreq' # nreq
    /\ last_req'.kind \in {"events", "tables", "rows"}

\* a 401 or another error status, the not-found answer of the rows endpoint
\* (404 with its marker) apart
FatalAnswer(req) ==
    /\ req.status >= 400
    /\ ~(req.kind = "rows" /\ req.status = 404 /\ req.body = "listed")

C7_Inv ==
    pc = "exit" =>
        /\ summary = NoSummary
        /\ nreq.create = 0 /\ nreq.upsert = 0
        /\ last_req.kind \in {"events", "tables", "rows"}

C7_Step ==
    /\ ReadIssued /\ FatalAnswer(last_req') => pc' = "exit"
    /\ pc = "exit" => vars' = vars

\* C7: a read answered 401 or with another error status puts the run in its
\* exit state at that request: nothing is requested afterwards, no row
\* creation and no upsert was requested before, and no summary is printed.
C7_FatalReadStops == [](C7_Inv) /\ [][C7_Step]_vars

C7_Witness ==
    /\ pc = "exit"
    /\ last_req.kind = "rows" /\ last_req.status = 500
    /\ Cardinality(services) >= 2

RowsIssued == nreq'.rows = nreq.rows + 1

\* C8 as stated: a 404 from the rows endpoint, with or without the
\* not-found marker, does not abort the run.
C8_Any404IsNoError ==
    last_req.kind = "rows" /\ last_req.status = 404 => pc # "exit"

C8_Step ==
    RowsIssued /\ last_req'.status = 404 =>
        IF last_req'.body = "listed"
        THEN /\ mapping' = mapping
             /\ start' = start + chunk_size
             /\ pc' = IF start' < Len(row_list) THEN "rows" ELSE "fill"
        ELSE pc' = "exit"

\* C8 (amended): a 404 from the rows endpoint that carries the not-found
\* marker in its metadata adds no entry, does not abort, and the loop goes on
\* with the next chunk; a 404 without the marker aborts the run.
C8_MarkedNotFoundIsNoError == [][C8_Step]_vars

\* a chunk was answered not-found and chunks remain to be looked up
C8_Witness ==
    /\ last_req.kind = "rows" /\ last_req.status = 404
    /\ last_req.body = "listed"
    /\ pc = "rows" /\ start < Len(row_list)

RECURSIVE Flatten(_)
Flatten(qq) == IF qq = << >> THEN << >> ELSE Head(qq) \o Flatten(Tail(qq))

\* the mapping one lookup of all the identifiers gives
Unchunked(rows, ids) == record_items(EmptyDict, RowsFor(rows, ids))

\* C9: when the lookup of n identifiers returns, it has issued
\* ceil(n / chunk_size) requests of at most chunk_size identifiers each, the
\* chunks are consecutive pieces of the list with no identifier twice, and
\* the mapping is that of one lookup of the whole list.
C9_Chunking ==
    /\ pc \in {"rows", "fill"} =>
        /\ \A i \in DOMAIN lookups : Len(lookups[i]) <= chunk_size
        /\ \A i \in DOMAIN lookups : lookups[i] # << >>
    /\ pc = "fill" /\ row_list # << >> =>
        /\ Len(lookups) = Ceil(Len(row_list), chunk_size)
        /\ Flatten(lookups) = row_list
        /\ Cardinality(Range(Flatten(lookups))) = Len(row_list)
        /\ Range(row_list) = non_empty(services)
        /\ mapping = Unchunked(store, row_list)

C9_Witness ==
    /\ pc = "fill" /\ Len(row_list) = 250
    /\ Len(lookups) = 3
    /\ Len(lookups[1]) = 100 /\ Len(lookups[2]) = 100 /\ Len(lookups[3]) = 50
    /\ mapping # EmptyDict

\* the number of elements of S that sort before s
Rank(S, s) == Cardinality({x \in S : StrLess(x, s)})

\* C10: the assignment gives the identifier of rank i among the distinct
\* non-empty identifiers of its argument the team at index i mod 2 of the
\* rotation, whatever the order and the repetitions of the argument.
C10_RoundRobinBySet ==
    pc = "assigned" =>
        LET S == {s \in Range(given) : s # Empty} IN
        /\ DOMAIN dummy_rows = S
        /\ \A s \in S : dummy_rows[s] = teams[(Rank(S, s) % 2) + 1]
        /\ S = {SvcB, SvcC} =>
            dummy_rows[SvcB] = teams[1] /\ dummy_rows[SvcC] = teams[2]

C10_Witness ==
    /\ pc = "assigned"
    /\ given = <<SvcC, SvcB, Empty, SvcC>>
    /\ dummy_rows = (SvcB :> teams[1]) @@ (SvcC :> teams[2])

\* the record has a non-empty structured service field
HasStructured(event) == event.service # None /\ Len(event.service) > 0

\* the names n for which the record carries the tag "service:" followed by n
TagNames(event) ==
    {n \in {Empty, SvcA, SvcB, SvcC} :
        \E i \in DOMAIN event.tags : event.tags[i] = ServicePrefix \o n}

Contribution(event) ==
    IF HasStructured(event) THEN {event.service} ELSE TagNames(event)

\* C11: extraction over a page adds, for each record with a non-empty
\* structured service field, that value and none of its tag names, and for
\* each other record the names of all of its service: tags.
C11_StructuredFirst ==
    pc = "extracted" =>
        services = UNION {Contribution(given[i]) : i \in DOMAIN given}

\* a record with both kinds gives its field only; one with tags gives them all
C11_Witness ==
    /\ pc = "extracted"
    /\ Len(given) = 2
    /\ given[1] = [service |-> SvcA, tags |-> << ServicePrefix \o SvcB >>]
    /\ given[2] = [service |-> None,
                   tags |-> << ServicePrefix \o SvcC, ServicePrefix >>]
    /\ services = {SvcA, SvcC, Empty}

\* C12: the discovered set holds no empty identifier, so none is counted in
\* found or listed as missing a team.
C12_NoEmptyId ==
    /\ Empty \notin services
    /\ Printed =>
        /\ Sum.found = Cardinality({s \in services : Len(s) > 0})
        /\ Empty \notin Range(Sum.missing_team)

\* a request to the event source is issued in this step
EventsIssued == nreq'.events = nreq.events + 1

\* the fetch has returned to main without an error
Returned == pc \in {"done", "table", "rows_begin"}

C13_Inv ==
    pc = "events" /\ nreq.events > 0 =>
        /\ last_req.kind = "events" /\ last_req.status = 200
        /\ last_req.after # None /\ Len(last_req.after) > 0

C13_Step ==
    /\ EventsIssued =>
        /\ last_req'.kind = "events"
        /\ last_req'.arg = (IF nreq.events = 0 THEN None ELSE last_req.after)
        /\ max_pages # << >> => nreq'.events <= max_pages[1]
        /\ last_req'.status = 200
             /\ (last_req'.after = None \/ last_req'.after = Empty)
             => pc' # "events"
    /\ pc = "events" /\ max_pages # << >> /\ nreq.events >= max_pages[1] =>
        /\ nreq' = nreq /\ last_req' = last_req
        /\ services' = services
        /\ Returned'

\* C13: the first request carries no cursor and each later one the cursor
\* of the response just before it; a response without a cursor, or with an
\* empty one, ends the loop; with max_pages set at most max_pages requests are
\* issued, after which the fetch returns the services it has, without error.
C13_CursorOrder == [](C13_Inv) /\ [][C13_Step]_vars

\* two pages fetched in cursor order, and the page limit about to stop a
\* source that offered a third
C13_Witness ==
    /\ pc = "events" /\ max_pages = <<2>>
    /\ nreq.events = 2
    /\ last_req.arg = CursorOf(1) /\ last_req.after = CursorOf(2)
    /\ services # {}

\* C14 as stated: whatever the event source does, the fetch loop ends.
C14_FetchTerminates == <>(pc # "events")

\* C14 (amended): the fetch loop ends when max_pages is set or the event
\* source has a last page.
C14_BoundedFetchTerminates ==
    (max_pages # << >> \/ ~endless) => <>(pc # "events")

\* the page limit stopped a source that was still handing out cursors
C14_Witness ==
    /\ endless /\ Returned
    /\ nreq.events = MaxPagesArg
    /\ last_req.after = CursorOf(MaxPagesArg)

\* paging metadata in which no cursor can be read
Unreadable == {"meta_absent", "meta_null", "page_absent", "page_null", "after_absent"}

\* C15: a response whose paging metadata holds no readable cursor ends the
\* stream: the fetch returns, without error, the services gathered so far.
C15_UnreadableMetaEndsStream ==
    /\ last_req.kind = "events" /\ last_req.status = 200
    /\ last_req.body \in Unreadable
    => Returned

\* the phase of the run that a position of main belongs to
PhaseOf(p) ==
    CASE p = "events" -> 1                              \* Discovering
      [] p \in {"table", "rows_begin", "rows"} -> 2      \* Resolving
      [] p \in {"fill", "create"} -> 3                   \* Filling
      [] p = "upsert" -> 4                               \* Upserting
      [] p = "summary" -> 5                              \* Summarizing
      [] OTHER -> 6                                      \* the run is over

C16_Step ==
    /\ PhaseOf(pc') >= PhaseOf(pc)
    /\ PhaseOf(pc') <= PhaseOf(pc) + 1 \/ PhaseOf(pc') = 6
    /\ EventsIssued =>
        /\ pc = "events"
        /\ nreq.tables = 0 /\ nreq.rows = 0 /\ nreq.create = 0 /\ nreq.upsert = 0
    /\ RowsIssued =>
        /\ PhaseOf(pc) = 2
        /\ nreq'.events = nreq.events
        /\ nreq.create = 0 /\ nreq.upsert = 0
    /\ CreateIssued =>
        /\ PhaseOf(pc) = 3
        /\ nreq'.events = nreq.events /\ nreq'.rows = nreq.rows
        /\ nreq.upsert = 0
    /\ UpsertIssued =>
        /\ PhaseOf(pc) = 4
        /\ nreq'.events = nreq.events /\ nreq'.rows = nreq.rows
        /\ nreq'.create = nreq.create
    /\ PhaseOf(pc) >= 5 => nreq' = nreq

\* C16: the run goes from one phase to the same or the next one (or ends),
\* never back; event requests come before any lookup, lookups before any row
\* creation, row creations before any upsert, and nothing is requested once
\* the summary is reached.
C16_PhaseOrder == [][C16_Step]_vars

\* a live run that issued all four kinds of request and printed its summary
C16_Witness ==
    /\ Printed /\ ~dry_run
    /\ nreq.events >= 2 /\ nreq.rows >= 1 /\ nreq.create >= 1 /\ nreq.upsert >= 1

\* the sequence of identifiers is in strictly ascending order
Ascending(q) == \A i, j \in DOMAIN q : i < j => StrLess(q[i], q[j])

\* C17: the services of the upserts issued so far are in strictly ascending
\* order (so none is sent twice), and so are the services listed as missing
\* a team, in the run and in its summary.
C17_SortedUpserts ==
    /\ Ascending([i \in DOMAIN upserts |-> upserts[i].service])
    /\ Ascending(missing_team)
    /\ Printed => Ascending(Sum.missing_team)

\* two services sent and two listed as missing a team
C17_Witness ==
    /\ Printed
    /\ Len(upserts) >= 2 /\ Len(Sum.missing_team) >= 2

\* what the lookups left without an entry (line 433)
Unmapped == {s \in services : s \notin DOMAIN resolved(mapping, dummy_rows)}

\* the row creations are over
Filled == pc \in {"upsert", "summary"} \/ Printed

\* C18: in a live run a row creation answered with another status than
\* created or conflict is put on the failure list and the run goes on; once
\* the filling is over every unmapped service has had exactly one row
\* creation attempt, and a run that ends after such a failure ends with its
\* summary.
C18_RowFailureIsolated ==
    /\ last_req.kind = "create" /\ last_req.status \notin {200, 201, 409} =>
        /\ insert_failures # << >>
        /\ insert_failures[Len(insert_failures)]
             = [service |-> last_req.arg, status |-> last_req.status]
        /\ pc \in {"create", "upsert"}
    /\ ~dry_run /\ Filled /\ insert_failures # << >> =>
        /\ Range(creates) = Unmapped
        /\ Len(creates) = Cardinality(Unmapped)
    /\ insert_failures # << >> /\ pc \in {"done", "exit"} => Printed

\* the placeholder of an unmapped service: the teams in rotation over the
\* unmapped identifiers in sorted order
Placeholder(s) == teams[(Rank(Unmapped \ {Empty}, s) % Len(teams)) + 1]

\* C19: when a live run prints its summary, every unmapped service has been
\* upserted with its placeholder team, whatever its row creation was
\* answered, and failed counts nothing but upserts.
C19_PlaceholderUpserted ==
    ~dry_run /\ Printed =>
        /\ \A s \in Unmapped :
            [service |-> s, team |-> Placeholder(s)] \in Range(upserts)
        /\ Sum.updated + Sum.failures = Len(upserts)

\* the table holds a row for the service whose team is empty or blank
BlankRow(s) == \E r \in store : r.id = s /\ strip(r.team) = Empty

\* C20: a discovered service whose row has an empty or blank team gets no
\* placeholder, no row creation and no upsert, and is counted as skipped
\* and listed as missing a team.
C20_BlankTeamIsMapped ==
    \A s \in services : BlankRow(s) =>
        /\ Filled =>
            /\ s \notin DOMAIN dummy_rows
            /\ s \notin Range(creates)
        /\ s \notin Upserted
        /\ Printed =>
            /\ s \in Range(Sum.missing_team)
            /\ Sum.skipped >= 1

====
